---- MODULE Spec2Model ----
(***************************************************************************)
(* A model of lsst.display.ginga (python/lsst/display/ginga/ginga.py): the *)
(* module-level initGinga, the DisplayImpl class with its class-level      *)
(* server, its drawing operations on a ginga canvas, and the               *)
(* WcsAdaptorForGinga shim.                                                *)
(*                                                                         *)
(* Objects of the wrapped libraries (ginga server / viewer / canvas, afw   *)
(* Wcs and ellipse cores) appear as records; calls into them are assumed   *)
(* to return normally.  Python exceptions raised by the module's own code  *)
(* are recorded in lastCall.raised.  lastCall.trace lists, in order, the   *)
(* library calls the last handler made.                                    *)
(***************************************************************************)
EXTENDS Integers, Sequences, FiniteSets, TLC

(* ------------------------------ bounds -------------------------------- *)
MaxServers == 2
MaxInstances == 3
MaxDrawInstances == 1
MaxObjs == 2
MaxPoints == 3

(* --------------------------- python values ---------------------------- *)
\* Object references are positive indices into the sequence that holds the
\* objects; None is 0; a name that was never bound is Undefined.
None == 0
Undefined == -1

\* bool(x) of a reference: None is falsy, every ginga server object is truthy
Truthy(x) == x # None

\* A python string is a sequence of one-character strings.
DigitChar(d) ==
    CASE d = 0 -> "0" [] d = 1 -> "1" [] d = 2 -> "2" [] d = 3 -> "3"
      [] d = 4 -> "4" [] d = 5 -> "5" [] d = 6 -> "6" [] d = 7 -> "7"
      [] d = 8 -> "8" [] d = 9 -> "9"

DigitVal(ch) ==
    CASE ch = "0" -> 0 [] ch = "1" -> 1 [] ch = "2" -> 2 [] ch = "3" -> 3
      [] ch = "4" -> 4 [] ch = "5" -> 5 [] ch = "6" -> 6 [] ch = "7" -> 7
      [] ch = "8" -> 8 [] ch = "9" -> 9

RECURSIVE Digits(_)
Digits(n) ==
    IF n < 10 THEN <<DigitChar(n)>>
    ELSE Append(Digits(n \div 10), DigitChar(n % 10))

\* str(n) of an integer (also what '%g' % n gives for the small integers used)
Str(n) == IF n < 0 THEN <<"-">> \o Digits(-n) ELSE Digits(n)

RECURSIVE ParseDigits(_)
ParseDigits(w) ==
    IF Len(w) = 0 THEN 0
    ELSE 10 * ParseDigits(SubSeq(w, 1, Len(w) - 1)) + DigitVal(w[Len(w)])

\* float(p) of a word holding an integer literal
Float(w) == IF w[1] = "-" THEN 0 - ParseDigits(Tail(w)) ELSE ParseDigits(w)

(* ------------------------------ inputs -------------------------------- *)
Frames == {0, 1}

DefaultArgs ==
    [host |-> "localhost", port |-> 9914, use_opencv |-> FALSE, no_ioloop |-> TRUE]

ServerArgs ==
    {DefaultArgs,
     [host |-> "otherhost", port |-> 8080, use_opencv |-> TRUE, no_ioloop |-> FALSE]}

canvas_types == {"jpeg", "png"}

CanvasFormats == {"jpeg", "png", "gif"}

(* ------------------------------- state -------------------------------- *)
VARIABLES
    moduleServer,   \* the module global `server`: Undefined, None or a server
    classServer,    \* DisplayImpl.server: None or a server
    servers,        \* every server made so far
    viewers,        \* every viewer a server has handed out
    canvases,       \* every canvas added to a viewer
    instances,      \* every DisplayImpl constructed
    adaptor,        \* the WcsAdaptorForGinga under use
    lastCall        \* the last call made into the module and its outcome

vars ==
    <<moduleServer, classServer, servers, viewers, canvases, instances,
      adaptor, lastCall>>

Call(op, self, args, raised, trace, value) ==
    [op |-> op, self |-> self, args |-> args, raised |-> raised, trace |-> trace,
     value |-> value]

NoArgs == <<>>

NoValue == <<>>

NoWcs == [isNone |-> TRUE, crpix |-> <<0, 0>>, crval |-> <<0, 0>>]

NoAdaptor == [built |-> FALSE, _wcs |-> NoWcs]

NoImage == [set |-> FALSE, data_np |-> "", hasWcs |-> FALSE, wcs |-> NoAdaptor]

\* `if False:` guards the only module-level binding of `server`
ModuleServerAtImport == Undefined

Init ==
    /\ moduleServer = ModuleServerAtImport
    /\ classServer = None
    /\ servers = <<>>
    /\ viewers = <<>>
    /\ canvases = <<>>
    /\ instances = <<>>
    /\ adaptor = NoAdaptor
    /\ lastCall = Call("import", 0, NoArgs, "", <<>>, NoValue)

(* --------------------------- ginga library ---------------------------- *)
\* ipg.make_server(...) followed by server.start(no_ioloop=...)
NewServer(a, by) ==
    [args |-> a, starts |-> 1, stops |-> 0, madeBy |-> by]

\* server.get_viewer(v_id): the server keeps one viewer per id
ViewersNamed(vs, sid, name) ==
    {v \in 1..Len(vs) : vs[v].server = sid /\ vs[v].name = name}

NewViewer(sid, name) ==
    [server |-> sid, name |-> name, format |-> "default", image |-> NoImage]

Running(s) == s.starts > s.stops

RunningServers == {s \in 1..Len(servers) : Running(servers[s])}

(* --------------------------- initGinga -------------------------------- *)
initGinga(a) ==
    IF moduleServer = Undefined
    THEN \* `if not server` reads an unbound global: NameError
         /\ lastCall' = Call("initGinga", 0, <<a>>, "NameError", <<>>, NoValue)
         /\ UNCHANGED <<moduleServer, classServer, servers, viewers, canvases,
                        instances, adaptor>>
    ELSE IF ~Truthy(moduleServer)
    THEN /\ Len(servers) < MaxServers
         /\ servers' = Append(servers, NewServer(a, "initGinga"))
         /\ moduleServer' = Len(servers) + 1
         /\ lastCall' = Call("initGinga", 0, <<a>>, "", <<"make_server", "start">>, NoValue)
         /\ UNCHANGED <<classServer, viewers, canvases, instances, adaptor>>
    ELSE /\ lastCall' = Call("initGinga", 0, <<a>>, "", <<>>, NoValue)
         /\ UNCHANGED <<moduleServer, classServer, servers, viewers, canvases,
                        instances, adaptor>>

(* ------------------------ DisplayImpl.__init__ ------------------------ *)
\* line 95: `if not DisplayImpl.server`
NeedServerAlways(s) == TRUE

NeedServer(s) == ~Truthy(s)

\* line 99: the server whose get_viewer is called
ViewerSourceFirst(cs) == 1

ViewerSource(cs) == cs

\* line 101: self._canvas = self.display.add_canvas()
AddCanvas(cs, vid) == Append(cs, [viewer |-> vid, objs |-> <<>>])

DisplayImpl__init__(frame, a, canvas_format, open) ==
    LET make == NeedServer(classServer)
        servers1 == IF make THEN Append(servers, NewServer(a, "DisplayImpl"))
                    ELSE servers
        server1 == IF make THEN Len(servers) + 1 ELSE classServer
        sid == ViewerSource(server1)
        name == Str(frame)
        found == ViewersNamed(viewers, sid, name)
        vid == IF found # {} THEN CHOOSE v \in found : TRUE ELSE Len(viewers) + 1
        viewers1 == IF found # {} THEN viewers
                    ELSE Append(viewers, NewViewer(sid, name))
        known == canvas_format \in canvas_types
        viewers2 == IF known THEN [viewers1 EXCEPT ![vid].format = canvas_format]
                    ELSE viewers1
        canvases1 == AddCanvas(canvases, vid)
        trace == (IF make THEN <<"make_server", "start">> ELSE <<>>)
                 \o <<"get_viewer", "add_canvas">>
                 \o (IF known THEN <<"get_settings", "set">> ELSE <<"print">>)
                 \o (IF open THEN <<"open">> ELSE <<>>)
    IN  /\ make => Len(servers) < MaxServers
        /\ servers' = servers1
        /\ classServer' = server1
        /\ viewers' = viewers2
        /\ canvases' = canvases1
        /\ instances' = Append(instances,
                               [frame |-> frame, display |-> vid,
                                _canvas |-> Len(canvases1)])
        /\ lastCall' = Call("__init__", Len(instances) + 1, <<a>>, "", trace, NoValue)
        /\ UNCHANGED <<moduleServer, adaptor>>

(* ---------------------- DisplayImpl.shutdown_server ------------------- *)
\* line 131: DisplayImpl.server = None
ClearedServerKept(cs) == cs

ClearedServer(cs) == None

\* line 130: DisplayImpl.server.stop()
StopServerSkipped(ss, sid) == ss

StopServer(ss, sid) == [ss EXCEPT ![sid].stops = @ + 1]

shutdown_server(i) ==
    IF Truthy(classServer)
    THEN /\ servers' = StopServer(servers, classServer)
         /\ classServer' = ClearedServer(classServer)
         /\ lastCall' = Call("shutdown_server", i, NoArgs, "", <<"stop">>, NoValue)
         /\ UNCHANGED <<moduleServer, viewers, canvases, instances, adaptor>>
    ELSE /\ lastCall' = Call("shutdown_server", i, NoArgs, "", <<>>, NoValue)
         /\ UNCHANGED <<moduleServer, classServer, servers, viewers, canvases,
                        instances, adaptor>>

(* -------------------------- DisplayImpl._close ------------------------ *)
_close(i) ==
    /\ lastCall' = Call("_close", i, NoArgs, "", <<>>, NoValue)
    /\ UNCHANGED <<moduleServer, classServer, servers, viewers, canvases,
                   instances, adaptor>>

(* --------------------- the server life cycle -------------------------- *)
Construct ==
    \E frame \in Frames, a \in ServerArgs, f \in CanvasFormats, open \in BOOLEAN :
        /\ Len(instances) < MaxInstances
        /\ DisplayImpl__init__(frame, a, f, open)

InitGinga == \E a \in ServerArgs : initGinga(a)

Shutdown == \E i \in 1..Len(instances) : shutdown_server(i)

Close == \E i \in 1..Len(instances) : _close(i)

Next == Construct \/ InitGinga \/ Shutdown \/ Close

Spec == Init /\ [][Next]_vars

(* ================= properties of the server life cycle ================= *)
CanvasesOf(v) == {c \in 1..Len(canvases) : canvases[c].viewer = v}

ServerOf(inst) == viewers[inst.display].server

IsStep(op) == lastCall'.op = op

\* C1: at most one server is started and not yet stopped, whatever sequence of
\* constructions, initGinga calls and shutdown_server calls has run.
C1_AtMostOneServer == Cardinality(RunningServers) <= 1

C1_Witness ==
    /\ lastCall.op = "initGinga"
    /\ Len(instances) >= 2
    /\ \E s \in 1..Len(servers) : servers[s].stops = 1
    /\ \E s \in 1..Len(servers) : Running(servers[s])

\* C2: the viewer of every frame that has been opened has exactly one canvas
\* added to it, also after several constructions for the same frame.
C2_OneCanvasPerFrame ==
    \A v \in 1..Len(viewers) : Cardinality(CanvasesOf(v)) = 1

\* C3: no server exists before the first construction; a construction calls
\* make_server and start exactly when DisplayImpl.server is unset, and
\* otherwise leaves the held server as it is; the new instance's viewer
\* always comes from the server held after the call, whatever host, port and
\* use_opencv were passed.
C3_ConstructStep ==
    LET held == classServer # None
        new == instances'[Len(instances')]
        startsWithMake ==
            /\ Len(lastCall'.trace) >= 2
            /\ SubSeq(lastCall'.trace, 1, 2) = <<"make_server", "start">>
        makeCalls == {k \in 1..Len(lastCall'.trace) :
                          lastCall'.trace[k] \in {"make_server", "start"}}
    IN  /\ Len(instances') = Len(instances) + 1
        /\ held =>
              /\ servers' = servers
              /\ classServer' = classServer
              /\ makeCalls = {}
        /\ ~held =>
              /\ Len(servers') = Len(servers) + 1
              /\ SubSeq(servers', 1, Len(servers)) = servers
              /\ classServer' = Len(servers')
              /\ servers'[classServer'].args = lastCall'.args[1]
              /\ startsWithMake
              /\ makeCalls = {1, 2}
        /\ viewers'[new.display].server = classServer'
        /\ viewers'[new.display].name = Str(new.frame)

C3_LazySharedServer ==
    /\ servers = <<>> /\ classServer = None
    /\ [][IsStep("__init__") => C3_ConstructStep]_vars

C3_Witness ==
    /\ lastCall.op = "__init__"
    /\ Len(instances) >= 2
    /\ classServer # None
    /\ lastCall.args[1] # servers[classServer].args
    /\ \A k \in 1..Len(lastCall.trace) : lastCall.trace[k] # "make_server"
    /\ ServerOf(instances[Len(instances)]) = ServerOf(instances[Len(instances) - 1])

\* C4: only shutdown_server stops a server; with a server held it calls stop
\* once and clears DisplayImpl.server; with none held it changes nothing; no
\* server is ever stopped twice; _close never stops or releases the server.
C4_Step ==
    /\ (\E s \in 1..Len(servers) : servers'[s].stops # servers[s].stops)
          => IsStep("shutdown_server")
    /\ (IsStep("shutdown_server") /\ classServer # None) =>
          /\ servers' = [servers EXCEPT ![classServer].stops = servers[classServer].stops + 1]
          /\ classServer' = None
          /\ lastCall'.trace = <<"stop">>
    /\ (IsStep("shutdown_server") /\ classServer = None) =>
          /\ servers' = servers
          /\ classServer' = None
          /\ lastCall'.trace = <<>>
    /\ IsStep("_close") =>
          /\ servers' = servers
          /\ classServer' = classServer
          /\ lastCall'.trace = <<>>

C4_ServerOwnedUntilShutdown ==
    /\ [](\A s \in 1..Len(servers) : servers[s].stops <= 1)
    /\ [][C4_Step]_vars

C4_Witness ==
    /\ lastCall.op = "shutdown_server"
    /\ lastCall.trace = <<>>
    /\ classServer = None
    /\ Len(instances) >= 1
    /\ \E s \in 1..Len(servers) : servers[s].stops = 1

\* C9: initGinga creates and starts the module-level server when none exists,
\* creates no second one when called again, and never raises.
C9_InitGingaIdempotent ==
    lastCall.op = "initGinga" =>
        /\ lastCall.raised = ""
        /\ moduleServer # Undefined /\ Truthy(moduleServer)
        /\ Cardinality({s \in 1..Len(servers) : servers[s].madeBy = "initGinga"}) = 1

\* C10: shutdown_server stops the shared server and leaves every instance's
\* viewer and canvas handle, and the viewers and canvases themselves, as they
\* were; the first construction after it (DisplayImpl.server is then None)
\* starts a new server, so its instance holds a viewer of another server
\* than every earlier instance.
C10_Step ==
    /\ IsStep("shutdown_server") =>
          /\ instances' = instances
          /\ viewers' = viewers
          /\ canvases' = canvases
          /\ moduleServer' = moduleServer
          /\ Len(servers') = Len(servers)
          /\ \A s \in 1..Len(servers) :
                 /\ s # classServer => servers'[s] = servers[s]
                 /\ s = classServer => ~Running(servers'[s])
          /\ \A j \in 1..Len(instances) :
                 ~Running(servers'[ServerOf(instances[j])])
    /\ (IsStep("__init__") /\ classServer = None /\ Len(instances) >= 1) =>
          /\ Len(servers') = Len(servers) + 1
          /\ Running(servers'[Len(servers')])
          /\ SubSeq(instances', 1, Len(instances)) = instances
          /\ \A j \in 1..Len(instances) :
                 /\ viewers'[instances[j].display] = viewers[instances[j].display]
                 /\ canvases'[instances[j]._canvas] = canvases[instances[j]._canvas]
                 /\ viewers'[instances'[j].display].server
                       # viewers'[instances'[Len(instances')].display].server

C10_ShutdownLeavesHandles == [][C10_Step]_vars

C10_Witness ==
    /\ lastCall.op = "__init__"
    /\ Len(instances) >= 2
    /\ ServerOf(instances[1]) # ServerOf(instances[Len(instances)])
    /\ instances[1].frame = instances[Len(instances)].frame
    /\ ~Running(servers[ServerOf(instances[1])])
    /\ Running(servers[ServerOf(instances[Len(instances)])])

(* ========================= drawing operations ========================= *)
\* An object on a canvas: its draw class, positional arguments, keyword
\* arguments other than the colour, text and colour.
Shape(kind, args, kw, text, color) ==
    [kind |-> kind, args |-> args, kw |-> kw, text |-> text, color |-> color]

\* afwGeom angles are held in eighths of a turn (pi/4 radians), so that
\* math.degrees and Angle.asDegrees stay within the integers.
Degrees(eighths) == 45 * eighths

\* symbols: a string, or an object derived from afwGeom.ellipses.BaseCore
StrSymbol(str) == [isBaseCore |-> FALSE, str |-> str, A |-> 0, B |-> 0, Theta |-> 0]

CoreSymbol(a, b, theta) ==
    [isBaseCore |-> TRUE, str |-> "", A |-> a, B |-> b, Theta |-> theta]

Symbols == {CoreSymbol(4, 2, 3), StrSymbol("o"), StrSymbol("+"), StrSymbol("hi")}

Positions == {<<1, 2>>, <<0, 3>>}

Sizes == {3}

DotColours == {"red"}

LineColours == {"red", "green"}

PointSet == {<<0, 0>>, <<1, 2>>}

RECURSIVE SeqsUpTo(_, _)
SeqsUpTo(S, n) ==
    IF n = 0 THEN {<<>>}
    ELSE LET shorter == SeqsUpTo(S, n - 1)
         IN  shorter \cup {Append(q, x) : q \in {t \in shorter : Len(t) = n - 1}, x \in S}

PointLists == SeqsUpTo(PointSet, MaxPoints)

\* images and masks: None, or an object with a truth value
PyNone == [isNone |-> TRUE, truth |-> FALSE, array |-> ""]

PyObject(truth, array) == [isNone |-> FALSE, truth |-> truth, array |-> array]

Images == {PyNone, PyObject(FALSE, "empty"), PyObject(TRUE, "A")}

Masks == {PyNone, PyObject(TRUE, "M")}

Wcs(crpix, crval) == [isNone |-> FALSE, crpix |-> crpix, crval |-> crval]

MtvWcs == {NoWcs, Wcs(<<1, 1>>, <<2, 0>>)}

TotalObjs ==
    LET RECURSIVE Sum(_)
        Sum(k) == IF k = 0 THEN 0 ELSE Len(canvases[k].objs) + Sum(k - 1)
    IN  Sum(Len(canvases))

(* ---- ds9Regions.dot: the region commands the afw library hands back ---- *)
W_line == <<"l", "i", "n", "e">>
W_text == <<"t", "e", "x", "t">>
W_ellipse == <<"e", "l", "l", "i", "p", "s", "e">>
W_hash == <<"#">>
W_font == <<"f", "o", "n", "t">>
W_quoted == <<"\"", "s", "\"">>

\* ds9 regions are 1-based: the library adds 1 to c and r before formatting
PlusRegions(c, r, size) ==
    << <<W_line, Str(c + 1), Str(r + 1 + size), Str(c + 1), Str(r + 1 - size)>>,
       <<W_line, Str(c + 1 - size), Str(r + 1), Str(c + 1 + size), Str(r + 1)>> >>

TextRegions(c, r) ==
    << <<W_text, Str(c + 1), Str(r + 1), W_quoted, W_hash, W_font>> >>

ForeignRegions(c, r, size) ==
    << <<W_line, Str(c + 1), Str(r + 1), Str(c + 1 + size), Str(r + 1), W_hash, W_font>>,
       <<W_ellipse, Str(c + 1), Str(r + 1), Str(size), Str(size), Str(0)>>,
       <<W_text, Str(c + 1), Str(r + 1), W_quoted>> >>

Ds9Returns(symb, c, r, size) ==
    IF symb.str = "+" THEN {PlusRegions(c, r, size)}
    ELSE {TextRegions(c, r), ForeignRegions(c, r, size), <<>>}

(* ----------------------------- _erase --------------------------------- *)
Erased(cs, cid) == [cs EXCEPT ![cid].objs = <<>>]

_erase(i) ==
    /\ canvases' = Erased(canvases, instances[i]._canvas)
    /\ lastCall' = Call("_erase", i, NoArgs, "", <<"delete_all_objects">>, NoValue)
    /\ UNCHANGED <<moduleServer, classServer, servers, viewers, instances, adaptor>>

(* ------------------------------ _mtv ---------------------------------- *)
WcsAdaptorForGinga(wcs) == [built |-> TRUE, _wcs |-> wcs]

\* line 161: `if image:`
ShowsImageUnlessNone(image) == ~image.isNone

ShowsImage(image) == image.truth

\* line 172: `if wcs is not None:`
AttachesWcs(wcs) == ~wcs.isNone

_mtv(i, image, mask, wcs) ==
    LET show == ShowsImage(image)
        attach == show /\ AttachesWcs(wcs)
        astroImage == [set |-> TRUE, data_np |-> image.array, hasWcs |-> attach,
                       wcs |-> IF attach THEN WcsAdaptorForGinga(wcs) ELSE NoAdaptor]
        trace == <<"delete_all_objects">>
                 \o (IF show THEN <<"AstroImage">> ELSE <<>>)
                 \o (IF attach THEN <<"set_wcs">> ELSE <<>>)
                 \o (IF show THEN <<"set_image">> ELSE <<>>)
                 \o (IF mask.truth THEN <<"print">> ELSE <<>>)
    IN  /\ canvases' = Erased(canvases, instances[i]._canvas)
        /\ viewers' = IF show
                      THEN [viewers EXCEPT ![instances[i].display].image = astroImage]
                      ELSE viewers
        /\ lastCall' = Call("_mtv", i, <<image, mask, wcs>>, "", trace, NoValue)
        /\ UNCHANGED <<moduleServer, classServer, servers, instances, adaptor>>

(* ------------------------------ _dot ---------------------------------- *)
\* tmp = ds9Cmd.split('#'); cmd = tmp.pop(0).split()
RECURSIVE BeforeHash(_)
BeforeHash(words) ==
    IF Len(words) = 0 \/ Head(words) = W_hash THEN <<>>
    ELSE <<Head(words)>> \o BeforeHash(Tail(words))

\* line 226 / 228: float(p) - 1
ShiftKept(p) == Float(p)

Shift(p) == Float(p) - 1

\* lines 220-231, for one region command: the object added, or none and raise
RegionObject(ds9Cmd, symb, ctype) ==
    LET words == BeforeHash(ds9Cmd)
        cmd == words[1]
        args == Tail(words)
    IN  IF cmd = W_line
        THEN [raised |-> "",
              obj |-> Shape("line", [k \in 1..Len(args) |-> Shift(args[k])],
                            <<>>, "", ctype)]
        ELSE IF cmd = W_text
        THEN [raised |-> "",
              obj |-> Shape("text", <<Shift(args[1]), Shift(args[2])>>,
                            <<>>, symb.str, ctype)]
        ELSE [raised |-> "RuntimeError", obj |-> Shape("", <<>>, <<>>, "", "")]

\* the loop of line 219: stops at the first command that raises
RECURSIVE DrawRegions(_, _, _, _)
DrawRegions(objs, regions, symb, ctype) ==
    IF Len(regions) = 0 THEN [raised |-> "", objs |-> objs]
    ELSE LET one == RegionObject(Head(regions), symb, ctype)
         IN  IF one.raised # "" THEN [raised |-> one.raised, objs |-> objs]
             ELSE DrawRegions(Append(objs, one.obj), Tail(regions), symb, ctype)

DotResult(objs, symb, c, r, size, ctype, regions) ==
    IF symb.isBaseCore
    THEN [raised |-> "",
          trace |-> <<"get_draw_class", "add">>,
          objs |-> Append(objs, Shape("ellipse", <<c, r>>,
                                      <<symb.A, symb.B, Degrees(symb.Theta)>>,
                                      "", ctype))]
    ELSE IF symb.str = "o"
    THEN [raised |-> "",
          trace |-> <<"get_draw_class", "add">>,
          objs |-> Append(objs, Shape("circle", <<c, r>>, <<size>>, "", ctype))]
    ELSE LET res == DrawRegions(objs, regions, symb, ctype)
         IN  [raised |-> res.raised,
              trace |-> <<"get_draw_class", "get_draw_class", "ds9Regions.dot">>
                        \o [k \in 1..(Len(res.objs) - Len(objs)) |-> "add"],
              objs |-> res.objs]

_dot(i, symb, c, r, size, ctype, regions) ==
    LET cid == instances[i]._canvas
        res == DotResult(canvases[cid].objs, symb, c, r, size, ctype, regions)
    IN  /\ TotalObjs + (Len(res.objs) - Len(canvases[cid].objs)) <= MaxObjs
        /\ canvases' = [canvases EXCEPT ![cid].objs = res.objs]
        /\ lastCall' = Call("_dot", i, <<symb, c, r, size, ctype, regions>>,
                            res.raised, res.trace, NoValue)
        /\ UNCHANGED <<moduleServer, classServer, servers, viewers, instances, adaptor>>

(* ---------------------------- _drawLines ------------------------------ *)
\* line 241: p0 = p
NextStartKept(p0, p) == p0

NextStart(p0, p) == p

RECURSIVE Connect(_, _, _, _)
Connect(objs, p0, rest, ctype) ==
    IF Len(rest) = 0 THEN objs
    ELSE LET p == Head(rest)
         IN  Connect(Append(objs, Shape("line", <<p0[1], p0[2], p[1], p[2]>>,
                                        <<>>, "", ctype)),
                     NextStart(p0, p), Tail(rest), ctype)

_drawLines(i, points, ctype) ==
    LET cid == instances[i]._canvas
        empty == Len(points) = 0
        objs1 == IF empty THEN canvases[cid].objs
                 ELSE Connect(canvases[cid].objs, points[1], Tail(points), ctype)
        added == Len(objs1) - Len(canvases[cid].objs)
    IN  /\ TotalObjs + added <= MaxObjs
        /\ canvases' = [canvases EXCEPT ![cid].objs = objs1]
        /\ lastCall' = Call("_drawLines", i, <<points, ctype>>,
                            IF empty THEN "IndexError" ELSE "",
                            <<"get_draw_class">> \o [k \in 1..added |-> "add"],
                            NoValue)
        /\ UNCHANGED <<moduleServer, classServer, servers, viewers, instances, adaptor>>

(* ------------------------- the drawing machine ------------------------ *)
Open ==
    \E open \in BOOLEAN :
        /\ Len(instances) < MaxDrawInstances
        /\ DisplayImpl__init__(0, DefaultArgs, "jpeg", open)

Erase == \E i \in 1..Len(instances) : _erase(i)

Mtv ==
    \E i \in 1..Len(instances), image \in Images, mask \in Masks, wcs \in MtvWcs :
        _mtv(i, image, mask, wcs)

Dot ==
    \E i \in 1..Len(instances), symb \in Symbols, pos \in Positions,
       size \in Sizes, ctype \in DotColours :
        \E regions \in Ds9Returns(symb, pos[1], pos[2], size) :
            _dot(i, symb, pos[1], pos[2], size, ctype, regions)

DrawLines ==
    \E i \in 1..Len(instances), points \in PointLists, ctype \in LineColours :
        _drawLines(i, points, ctype)

\* images and symbols on the canvases of the open displays
NextDraw == Open \/ Erase \/ Mtv \/ Dot

SpecDraw == Init /\ [][NextDraw]_vars

\* polylines on the canvases of the open displays
NextLines == Open \/ Erase \/ DrawLines

SpecLines == Init /\ [][NextLines]_vars

(* ==================== properties of the drawing calls ================== *)
CanvasOfCall == instances[lastCall'.self]._canvas

OtherCanvasesKept ==
    /\ Len(canvases') = Len(canvases)
    /\ \A c \in 1..Len(canvases) : c # CanvasOfCall => canvases'[c] = canvases[c]

KeepsOldObjects(old, new) ==
    /\ Len(new) >= Len(old)
    /\ SubSeq(new, 1, Len(old)) = old

\* the integer a numeric word of a region command was formatted from
NumberOf(word) == CHOOSE n \in -99..99 : Str(n) = word

HashAt(cmd) ==
    LET at == {k \in 1..Len(cmd) : cmd[k] = W_hash}
    IN  IF at = {} THEN Len(cmd) + 1 ELSE CHOOSE k \in at : \A j \in at : k <= j

CoordWords(cmd) == SubSeq(cmd, 2, HashAt(cmd) - 1)

\* C6: _dot adds one ellipse at (c, r) for a BaseCore object, one circle at
\* (c, r) of radius size for 'o', and otherwise one line or text object per
\* region command, every coordinate one less than in the command; a command
\* that is neither line nor text raises RuntimeError; nothing already on the
\* canvas is removed.
C6_DotStep ==
    LET symb == lastCall'.args[1]
        c == lastCall'.args[2]
        r == lastCall'.args[3]
        size == lastCall'.args[4]
        regions == lastCall'.args[6]
        old == canvases[CanvasOfCall].objs
        new == canvases'[CanvasOfCall].objs
        bad == {k \in 1..Len(regions) : regions[k][1] \notin {W_line, W_text}}
        firstBad == IF bad = {} THEN Len(regions) + 1
                    ELSE CHOOSE k \in bad : \A j \in bad : k <= j
    IN  /\ KeepsOldObjects(old, new)
        /\ OtherCanvasesKept
        /\ symb.isBaseCore =>
              /\ Len(new) = Len(old) + 1
              /\ new[Len(new)].kind = "ellipse"
              /\ new[Len(new)].args = <<c, r>>
              /\ lastCall'.raised = ""
        /\ (~symb.isBaseCore /\ symb.str = "o") =>
              /\ Len(new) = Len(old) + 1
              /\ new[Len(new)].kind = "circle"
              /\ new[Len(new)].args = <<c, r>>
              /\ new[Len(new)].kw = <<size>>
              /\ lastCall'.raised = ""
        /\ (~symb.isBaseCore /\ symb.str # "o") =>
              /\ Len(new) = Len(old) + firstBad - 1
              /\ lastCall'.raised = IF bad = {} THEN "" ELSE "RuntimeError"
              /\ \A k \in 1..(firstBad - 1) :
                    LET obj == new[Len(old) + k]
                        words == CoordWords(regions[k])
                    IN  IF regions[k][1] = W_line
                        THEN /\ obj.kind = "line"
                             /\ obj.args = [j \in 1..Len(words) |-> NumberOf(words[j]) - 1]
                        ELSE /\ obj.kind = "text"
                             /\ obj.args = <<NumberOf(words[1]) - 1, NumberOf(words[2]) - 1>>

C7_MtvStep ==
    LET image == lastCall'.args[1]
        wcs == lastCall'.args[3]
        trace == lastCall'.trace
        vid == instances[lastCall'.self].display
        setImages == {k \in 1..Len(trace) : trace[k] = "set_image"}
        setWcs == {k \in 1..Len(trace) : trace[k] = "set_wcs"}
    IN  /\ trace[1] = "delete_all_objects"
        /\ canvases'[CanvasOfCall].objs = <<>>
        /\ OtherCanvasesKept
        /\ Cardinality(setImages) = IF image.truth THEN 1 ELSE 0
        /\ setWcs # {} => ~wcs.isNone
        /\ ~image.truth => viewers' = viewers
        /\ image.truth =>
              /\ viewers'[vid].image.set
              /\ viewers'[vid].image.data_np = image.array
              /\ viewers'[vid].image.hasWcs = ~wcs.isNone
              /\ ~wcs.isNone => viewers'[vid].image.wcs._wcs = wcs
              /\ Len(viewers') = Len(viewers)
              /\ \A v \in 1..Len(viewers) : v # vid => viewers'[v] = viewers[v]
              /\ viewers'[vid] = [viewers[vid] EXCEPT !.image = viewers'[vid].image]

C7_MtvErasesFirst == [][IsStep("_mtv") => C7_MtvStep]_vars

C7_Witness ==
    /\ lastCall.op = "_mtv"
    /\ ~lastCall.args[1].isNone /\ ~lastCall.args[1].truth
    /\ lastCall.args[2].truth
    /\ ~lastCall.args[3].isNone
    /\ viewers[instances[lastCall.self].display].image.set
    /\ ~viewers[instances[lastCall.self].display].image.hasWcs
    /\ canvases[instances[lastCall.self]._canvas].objs = <<>>

\* C8: for n >= 1 points _drawLines adds n-1 lines, the k-th from points[k]
\* to points[k+1], all in colour ctype; for no points it raises and adds
\* nothing.
C8_DrawLinesStep ==
    LET points == lastCall'.args[1]
        ctype == lastCall'.args[2]
        n == Len(points)
        old == canvases[CanvasOfCall].objs
        new == canvases'[CanvasOfCall].objs
    IN  /\ OtherCanvasesKept
        /\ n = 0 => lastCall'.raised # "" /\ new = old
        /\ n >= 1 =>
              /\ lastCall'.raised = ""
              /\ KeepsOldObjects(old, new)
              /\ Len(new) = Len(old) + n - 1
              /\ \A k \in 1..(n - 1) :
                    new[Len(old) + k] =
                        Shape("line",
                              <<points[k][1], points[k][2],
                                points[k + 1][1], points[k + 1][2]>>,
                              <<>>, "", ctype)

C8_DrawLinesConnects == [][IsStep("_drawLines") => C8_DrawLinesStep]_vars

C8_Witness ==
    /\ lastCall.op = "_drawLines"
    /\ Len(lastCall.args[1]) = 3
    /\ lastCall.args[1][1] # lastCall.args[1][2]
    /\ lastCall.args[1][2] # lastCall.args[1][3]
    /\ Len(canvases[instances[lastCall.self]._canvas].objs) = 2

(* ========================= WcsAdaptorForGinga ========================= *)
\* The wrapped afw Wcs: a shift between pixels and sky, one pixel being one
\* eighth of a turn.  pixelToSky gives two Angles, skyToPixel takes two.
pixelToSky(wcs, x, y) ==
    <<wcs.crval[1] + (x - wcs.crpix[1]), wcs.crval[2] + (y - wcs.crpix[2])>>

skyToPixel(wcs, ra, dec) ==
    <<wcs.crpix[1] + (ra - wcs.crval[1]), wcs.crpix[2] + (dec - wcs.crval[2])>>

\* Angle.asDegrees()
asDegrees(angle) == Degrees(angle)

\* ra_deg*afwGeom.degrees
AngleOfDegrees(deg) == deg \div 45

ValidWcs ==
    {Wcs(<<0, 0>>, <<0, 0>>), Wcs(<<1, 1>>, <<2, 0>>),
     Wcs(<<0, 2>>, <<4, 1>>), Wcs(<<2, 1>>, <<1, 3>>)}

PixelCoords == 0..2

DegreeCoords == {0, 45, 90, 135}

\* the names bound at module level once the module is imported
ModuleGlobals ==
    {"absolute_import", "division", "print_function", "math", "os", "re", "sys",
     "time", "ipg", "interface", "virtualDevice", "ds9Regions", "afwGeom",
     "_maskTransparency", "gingaVersion", "initGinga", "GingaEvent",
     "DisplayImpl", "WcsAdaptorForGinga"}

NewAdaptor == \E wcs \in ValidWcs :
    /\ adaptor' = WcsAdaptorForGinga(wcs)
    /\ lastCall' = Call("WcsAdaptorForGinga", 0, <<wcs>>, "", <<>>, NoValue)
    /\ UNCHANGED <<moduleServer, classServer, servers, viewers, canvases, instances>>

pixtoradec(idxs) ==
    LET sky == pixelToSky(adaptor._wcs, idxs[1], idxs[2])
    IN  [raised |-> "", trace |-> <<"pixelToSky", "asDegrees", "asDegrees">>,
         value |-> <<asDegrees(sky[1]), asDegrees(sky[2])>>]

pixtosystem(idxs) == pixtoradec(idxs)

\* line 303 reads `wcs`, which is neither a local nor a module-level name;
\* were it bound, its skyToPixel would be the one called
radectopix(ra_deg, dec_deg) ==
    IF "wcs" \in ModuleGlobals
    THEN [raised |-> "", trace |-> <<"skyToPixel">>,
          value |-> <<"wcs", AngleOfDegrees(ra_deg), AngleOfDegrees(dec_deg)>>]
    ELSE [raised |-> "NameError", trace |-> <<>>, value |-> NoValue]

PixToRaDec == \E x \in PixelCoords, y \in PixelCoords :
    /\ adaptor.built
    /\ LET res == pixtoradec(<<x, y>>)
       IN  lastCall' = Call("pixtoradec", 0, <<x, y>>, res.raised, res.trace, res.value)
    /\ UNCHANGED <<moduleServer, classServer, servers, viewers, canvases,
                   instances, adaptor>>

PixToSystem == \E x \in PixelCoords, y \in PixelCoords :
    /\ adaptor.built
    /\ LET res == pixtosystem(<<x, y>>)
       IN  lastCall' = Call("pixtosystem", 0, <<x, y>>, res.raised, res.trace, res.value)
    /\ UNCHANGED <<moduleServer, classServer, servers, viewers, canvases,
                   instances, adaptor>>

RaDecToPix == \E ra_deg \in DegreeCoords, dec_deg \in DegreeCoords :
    /\ adaptor.built
    /\ LET res == radectopix(ra_deg, dec_deg)
       IN  lastCall' = Call("radectopix", 0, <<ra_deg, dec_deg>>,
                            res.raised, res.trace, res.value)
    /\ UNCHANGED <<moduleServer, classServer, servers, viewers, canvases,
                   instances, adaptor>>

NextWcs == NewAdaptor \/ PixToRaDec \/ PixToSystem \/ RaDecToPix

SpecWcs == Init /\ [][NextWcs]_vars

\* C5: pixtoradec and pixtosystem return the wrapped Wcs's pixelToSky result
\* in degrees, radectopix returns its skyToPixel result for the given
\* angles, and none of the three raises for an adaptor of a valid Wcs.
C5_AdaptorContract ==
    LET w == adaptor._wcs
        a == lastCall.args
    IN  /\ lastCall.op \in {"pixtoradec", "pixtosystem"} =>
              /\ lastCall.raised = ""
              /\ lastCall.value = <<45 * (w.crval[1] + a[1] - w.crpix[1]),
                                    45 * (w.crval[2] + a[2] - w.crpix[2])>>
        /\ lastCall.op = "radectopix" =>
              /\ lastCall.raised = ""
              /\ lastCall.value = <<w.crpix[1] + (a[1] \div 45) - w.crval[1],
                                    w.crpix[2] + (a[2] \div 45) - w.crval[2]>>

====
